---- MODULE Spec2Model ----
(***************************************************************************)
(* The YouTube Live panel of AviTab (src/avitab/apps/YouTubeLiveApp.cpp):  *)
(* the single-flight refresh scheduler, its auto-refresh timer, the        *)
(* background fetch thread and the closure it posts to the UI thread.      *)
(*                                                                         *)
(* Texts (the contents of the three text areas) are sequences of           *)
(* one-character strings, so that trimming, number parsing and video-ID    *)
(* extraction are computed character by character as the code does.        *)
(* Display strings (labels, list lines) are ordinary strings.              *)
(***************************************************************************)
EXTENDS Integers, Sequences, FiniteSets, TLC

----------------------------------------------------------------------------
(* Program constants *)

kDefaultIntervalMinutes == 1
kMaxComments == 25
\* length of a video ID (isCandidate)
kVideoIdLen == 11

(* Bounds of the model *)

\* fetch cycles started in one behaviour
MaxCycles == 2
\* thread slots the model can hold at once (the program holds one handle)
NumSlots == 2

----------------------------------------------------------------------------
(* Characters and texts *)

Digits == <<"0", "1", "2", "3", "4", "5", "6", "7", "8", "9">>

Lower == {"a", "b", "c", "d", "e", "f", "g", "h", "i", "j", "k", "l", "m",
          "n", "o", "p", "q", "r", "s", "t", "u", "v", "w", "x", "y", "z"}

Upper == {"A", "B", "C", "D", "E", "F", "G", "H", "I", "J", "K", "L", "M",
          "N", "O", "P", "Q", "R", "S", "T", "U", "V", "W", "X", "Y", "Z"}

IsDigit(ch) == \E i \in 1..10 : Digits[i] = ch

DigitVal(ch) == (CHOOSE i \in 1..10 : Digits[i] = ch) - 1

IsSpace(ch) == ch \in {" ", "\t", "\n", "\r"}

IsAlnum(ch) == IsDigit(ch) \/ ch \in Lower \/ ch \in Upper

\* std::to_string of a small non-negative int
to_string(n) == IF n < 10 THEN <<Digits[n + 1]>>
               ELSE <<Digits[(n \div 10) + 1], Digits[(n % 10) + 1]>>

\* trim: the text between the first and the last non-space character
Trim(value) ==
    LET nonsp == {i \in 1..Len(value) : ~IsSpace(value[i])}
    IN  IF nonsp = {} THEN <<>>
        ELSE LET b == CHOOSE i \in nonsp : \A j \in nonsp : i <= j
                 e == CHOOSE i \in nonsp : \A j \in nonsp : i >= j
             IN  SubSeq(value, b, e)

\* std::string::find(key): first position (1-based) of key in text, 0 = npos
Find(text, key) ==
    LET hits == {p \in 1..(Len(text) - Len(key) + 1) :
                    SubSeq(text, p, p + Len(key) - 1) = key}
    IN  IF hits = {} THEN 0 ELSE CHOOSE p \in hits : \A q \in hits : p <= q

\* std::string::find_first_of(chars, pos): first position >= pos holding one
\* of chars, 0 = npos
FindFirstOf(text, chars, pos) ==
    LET hits == {p \in pos..Len(text) : text[p] \in chars}
    IN  IF hits = {} THEN 0 ELSE CHOOSE p \in hits : \A q \in hits : p <= q

----------------------------------------------------------------------------
(* extractVideoId *)

\* isCandidate without the test of the size
isCandidateAnyLength(candidate) ==
    \A i \in 1..Len(candidate) :
        IsAlnum(candidate[i]) \/ candidate[i] = "-" \/ candidate[i] = "_"

isCandidate(candidate) ==
    /\ Len(candidate) = kVideoIdLen
    /\ \A i \in 1..Len(candidate) :
          IsAlnum(candidate[i]) \/ candidate[i] = "-" \/ candidate[i] = "_"

\* findId without the search for '?', '&' or '#': the candidate runs to the
\* end of the text
findIdToEnd(trimmed, key) ==
    LET at == Find(trimmed, key)
    IN  IF at = 0 THEN <<>>
        ELSE LET candidate == SubSeq(trimmed, at + Len(key), Len(trimmed))
             IN  IF isCandidate(candidate) THEN candidate ELSE <<>>

\* the findId lambda: the text after the first occurrence of key, up to the
\* next '?', '&' or '#', when it is a candidate; <<>> otherwise
findId(trimmed, key) ==
    LET at == Find(trimmed, key)
    IN  IF at = 0 THEN <<>>
        ELSE LET pos == at + Len(key)
                 end == FindFirstOf(trimmed, {"?", "&", "#"}, pos)
                 candidate == IF end = 0 THEN SubSeq(trimmed, pos, Len(trimmed))
                              ELSE SubSeq(trimmed, pos, end - 1)
             IN  IF isCandidate(candidate) THEN candidate ELSE <<>>

KeyV == <<"v", "=">>
KeyShort == <<"y", "o", "u", "t", "u", ".", "b", "e", "/">>
KeyEmbed == <<"/", "e", "m", "b", "e", "d", "/">>

extractVideoId(url) ==
    LET trimmed == Trim(url)
    IN  IF trimmed = <<>> THEN <<>>
        ELSE IF isCandidate(trimmed) THEN trimmed
        ELSE IF findId(trimmed, KeyV) # <<>> THEN findId(trimmed, KeyV)
        ELSE IF findId(trimmed, KeyShort) # <<>> THEN findId(trimmed, KeyShort)
        ELSE IF findId(trimmed, KeyEmbed) # <<>> THEN findId(trimmed, KeyEmbed)
        ELSE <<>>

----------------------------------------------------------------------------
(* std::stod, as startAutoRefresh uses it *)

\* strtod: leading white space is skipped, then an optional sign, then the
\* longest run of decimal digits is converted; whatever follows is ignored.
\* No digit at that place: no conversion (std::invalid_argument).  The texts
\* of this model hold no '.', 'e', 'x', "inf" or "nan", so the fraction,
\* exponent, hexadecimal and special forms do not arise.
stod(text) ==
    LET nonsp == {i \in 1..Len(text) : ~IsSpace(text[i])}
        first == IF nonsp = {} THEN Len(text) + 1
                 ELSE CHOOSE i \in nonsp : \A j \in nonsp : i <= j
        signed == first <= Len(text) /\ text[first] \in {"+", "-"}
        neg == signed /\ text[first] = "-"
        from == IF signed THEN first + 1 ELSE first
        stop == {i \in from..Len(text) : ~IsDigit(text[i])}
        to == IF stop = {} THEN Len(text)
              ELSE (CHOOSE i \in stop : \A j \in stop : i <= j) - 1
        val[i \in (from - 1)..Len(text)] ==
            IF i < from THEN 0 ELSE val[i - 1] * 10 + DigitVal(text[i])
    IN  IF to < from THEN [ok |-> FALSE, minutes |-> 0]
        ELSE [ok |-> TRUE, minutes |-> IF neg THEN 0 - val[to] ELSE val[to]]

----------------------------------------------------------------------------
(* LiveData and downloadLiveData *)

\* a default-constructed LiveData
LiveData == [success |-> FALSE, viewersText |-> "", statusText |-> "",
             comments |-> <<>>]

\* A JSON member that may be missing is a sequence of length 0 (missing) or
\* 1 (its value).  A response of the API for one cycle:
\*   video     "throw" (transport or parse failure of the first request),
\*             "noitems" (no "items" member), "empty" (items = []), "item"
\*   details   liveStreamingDetails of the first item, <<>> when missing:
\*             [viewers, chatId], each missing or a string
\*   chat      "throw" (failure of the second request), "noitems", "items"
\*   messages  the chat items: [author, message], each missing or a string
\*   what      e.what() of the failure
Msg(author, message) == [author |-> author, message |-> message]

Details(viewers, chatId) == [viewers |-> viewers, chatId |-> chatId]

Response(video, details, chat, messages, what) ==
    [video |-> video, details |-> details, chat |-> chat,
     messages |-> messages, what |-> what]

\* the comments loop without the break of lines 353-355
collectCommentsUncapped(messages, i, comments) ==
    LET rest == SubSeq(messages, i, Len(messages))
        shown == SelectSeq(rest, LAMBDA m : m.message # <<>> /\ m.message[1] # "")
    IN  comments \o [k \in 1..Len(shown) |->
                        (IF shown[k].author # <<>> THEN shown[k].author[1]
                         ELSE "Unknown") \o ": " \o shown[k].message[1]]

\* the comments loop over chatJson["items"]: an entry per message with
\* non-empty display text, stopping once kMaxComments are collected
RECURSIVE collectComments(_, _, _)
collectComments(messages, i, comments) ==
    IF i > Len(messages) THEN comments
    ELSE LET msg == messages[i]
             author == IF msg.author # <<>> THEN msg.author[1] ELSE "Unknown"
             message == IF msg.message # <<>> THEN msg.message[1] ELSE ""
             next == IF message # "" THEN Append(comments, author \o ": " \o message)
                     ELSE comments
         IN  IF Len(next) >= kMaxComments THEN next
             ELSE collectComments(messages, i + 1, next)

\* downloadLiveData: [throws |-> TRUE, what] when an exception leaves it,
\* [throws |-> FALSE, data] otherwise.  now is formatTimestamp()'s text.
downloadLiveData(resp, now) ==
    IF resp.video = "throw" THEN [throws |-> TRUE, what |-> resp.what]
    ELSE IF resp.video \in {"noitems", "empty"} THEN
        [throws |-> FALSE,
         data |-> [LiveData EXCEPT !.statusText = "Live stream not found."]]
    ELSE IF resp.details # <<>> /\ resp.details[1].chatId # <<>>
            /\ resp.chat = "throw" THEN
        [throws |-> TRUE, what |-> resp.what]
    ELSE
        LET viewersText ==
                IF resp.details = <<>> THEN "Concurrent viewers: unavailable"
                ELSE IF resp.details[1].viewers # <<>>
                     THEN "Concurrent viewers: " \o resp.details[1].viewers[1]
                     ELSE "Concurrent viewers: n/a"
            collected ==
                IF resp.details = <<>>
                THEN <<"Live stream does not expose live chat data.">>
                ELSE IF resp.details[1].chatId = <<>>
                THEN <<"Live chat is not active for this stream.">>
                ELSE IF resp.chat = "items"
                THEN collectComments(resp.messages, 1, <<>>)
                ELSE <<>>
            comments == IF collected = <<>>
                        THEN <<"No live chat messages available.">>
                        ELSE collected
        IN  [throws |-> FALSE,
             data |-> [success |-> TRUE, viewersText |-> viewersText,
                       statusText |-> "Last update: " \o now,
                       comments |-> comments]]

\* runFetch with the viewers text of a download that failed later kept
fetchedDataKeepsPartial(down, resp, now) ==
    IF down THEN LiveData
    ELSE LET r == downloadLiveData(resp, now)
         IN  IF r.throws
             THEN [LiveData EXCEPT
                     !.statusText = "Error: " \o r.what,
                     !.viewersText =
                        IF resp.video = "item" /\ resp.details # <<>>
                        THEN IF resp.details[1].viewers # <<>>
                             THEN "Concurrent viewers: " \o resp.details[1].viewers[1]
                             ELSE "Concurrent viewers: n/a"
                        ELSE ""]
             ELSE r.data

\* runFetch, lines 269-277: the LiveData the worker holds after the fetch
fetchedData(down, resp, now) ==
    IF down THEN LiveData
    ELSE LET r == downloadLiveData(resp, now)
         IN  IF r.throws THEN [LiveData EXCEPT !.statusText = "Error: " \o r.what]
             ELSE r.data

\* the chat request goes out whatever the first answer was
requestsIssuedAlways(resp) == <<"videos", "liveChat/messages">>

\* the endpoints downloadLiveData asks httpClient for, in order: the videos
\* request of line 318 and, with an activeLiveChatId, the chat request of
\* line 337
requestsIssued(resp) ==
    IF resp.video = "item" /\ resp.details # <<>> /\ resp.details[1].chatId # <<>>
    THEN <<"videos", "liveChat/messages">>
    ELSE <<"videos">>

\* runFetch, line 270: downloadLiveData is not called while shutting down
fetchRequests(down, resp) == IF down THEN <<>> ELSE requestsIssued(resp)

\* what the closure of runFetch puts into the three widgets
renderStatus(data) == IF data.statusText = "" THEN "Ready" ELSE data.statusText

renderViewers(data) ==
    IF data.viewersText = "" THEN "Concurrent viewers: --" ELSE data.viewersText

\* the closure without the placeholder of lines 298-299
renderListNoPlaceholder(data) ==
    SubSeq(data.comments, 1,
           IF Len(data.comments) < kMaxComments THEN Len(data.comments)
           ELSE kMaxComments)

renderList(data) ==
    IF data.comments = <<>> THEN <<"No live chat messages available.">>
    ELSE SubSeq(data.comments, 1,
                IF Len(data.comments) < kMaxComments THEN Len(data.comments)
                ELSE kMaxComments)

----------------------------------------------------------------------------
(* Inputs: what the user has typed and what the network answers *)

VideoId == <<"d", "Q", "w", "4", "w", "9", "W", "g", "X", "c", "Q">>

\* contents of the URL field when a handler reads it
Urls == {<<" ">>, <<"v", "=">> \o VideoId \o <<"&", "t">>,
         <<"n", "o", " ", "u", "r", "l">>}

\* contents of the API key field
ApiKeys == {<<>>, <<"k", "e", "y">>}

\* contents of the interval field
IntervalTexts == {<<>>, <<"0">>, <<" ", "2">>, <<"a", "b", "c">>, <<"2", "a">>,
                  <<"-", "1">>}

Responses ==
    { Response("throw", <<>>, "noitems", <<>>, "timeout"),
      Response("empty", <<>>, "noitems", <<>>, ""),
      Response("item", <<Details(<<"42">>, <<"chat1">>)>>, "throw", <<>>, "parse error"),
      Response("item", <<Details(<<"42">>, <<"chat1">>)>>, "items",
               <<Msg(<<"ann">>, <<"hi">>), Msg(<<>>, <<"">>), Msg(<<>>, <<"yo">>)>>, "") }

\* formatTimestamp(): the local time of day the clock shows
Clock == {"12:00:00"}

----------------------------------------------------------------------------
(* State *)

VARIABLES
    requestInProgress,   \* std::atomic<bool>
    autoRefreshEnabled,  \* std::atomic<bool>
    shuttingDown,        \* std::atomic<bool>
    refreshTimer,        \* 0: null; otherwise the period in ms of the Timer
    staleTick,           \* a tick of a stopped Timer is still to be delivered
    fetchThread,         \* 0: not joinable; otherwise the slot of its thread
    wpc,                 \* slot -> place of the thread in runFetch
    wdata,               \* slot -> the LiveData local of runFetch
    wcycle,              \* slot -> the fetch cycle the thread serves
    execQueue,           \* closures passed to executeLater, oldest first
    statusLabel,         \* text of the status label
    viewersLabel,        \* text of the viewers label
    commentsList,        \* lines of the comment list
    autoRefreshButton,   \* caption of the toggle button
    alive,               \* widget -> it has not been destroyed
    ui,                  \* what the UI thread is doing
    destroyed,           \* the destructor has returned
    cycle,               \* fetch cycles started so far
    last,                \* the step taken last and what it read and returned
    danglingWrite,       \* a closure has written to a destroyed widget
    eval                 \* a pure function under evaluation: its input and value

vars == <<requestInProgress, autoRefreshEnabled, shuttingDown, refreshTimer,
          staleTick, fetchThread, wpc, wdata, wcycle, execQueue, statusLabel,
          viewersLabel, commentsList, autoRefreshButton, alive, ui, destroyed,
          cycle, last, danglingWrite, eval>>

Slots == 1..NumSlots

Widgets == {"status", "viewers", "list"}

\* the record of a step: its name, the field texts it read (a sequence of
\* length 0 when it read none), the triggerRefresh() calls it made, the
\* outcome of that call and the value onTimer returned; for a closure the
\* cycle whose result it held; for suspend and window close whether the step before
\* was one of the two as well
Step(op, interval, url, key, calls, outcome, ret) ==
    [op |-> op, interval |-> interval, url |-> url, key |-> key,
     calls |-> calls, outcome |-> outcome, ret |-> ret, cycle |-> 0,
     after |-> "none"]

Plain(op) == Step(op, <<>>, <<>>, <<>>, 0, "none", "none")

\* the panel after its constructor
Constructed ==
    /\ requestInProgress = FALSE
    /\ autoRefreshEnabled = FALSE
    /\ shuttingDown = FALSE
    /\ refreshTimer = 0
    /\ staleTick = FALSE
    /\ fetchThread = 0
    /\ wpc = [s \in Slots |-> "none"]
    /\ wdata = [s \in Slots |-> LiveData]
    /\ wcycle = [s \in Slots |-> 0]
    /\ execQueue = <<>>
    /\ statusLabel = "Ready"
    /\ viewersLabel = "Concurrent viewers: --"
    /\ commentsList = <<"No live chat messages available.">>
    /\ autoRefreshButton = "Start auto refresh"
    /\ alive = [w \in Widgets |-> TRUE]
    /\ ui = "idle"
    /\ destroyed = FALSE
    /\ cycle = 0
    /\ last = Plain("init")
    /\ danglingWrite = FALSE

\* the variables of the panel and its threads
panelVars == <<requestInProgress, autoRefreshEnabled, shuttingDown, refreshTimer,
               staleTick, fetchThread, wpc, wdata, wcycle, execQueue,
               statusLabel, viewersLabel, commentsList, autoRefreshButton,
               alive, ui, destroyed, cycle, last, danglingWrite>>

\* no function is under evaluation while the panel runs
NoEval == [pc |-> "off"]

Init == Constructed /\ eval = NoEval

\* the UI thread is free to run a handler of the panel
UiReady == ui = "idle" /\ ~destroyed

threadVars == <<fetchThread, wpc, wdata, wcycle>>
displayVars == <<statusLabel, viewersLabel, commentsList>>
timerVars == <<autoRefreshEnabled, refreshTimer, staleTick, autoRefreshButton>>

----------------------------------------------------------------------------
(* triggerRefresh *)

\* lines 176-177 and 187 for the texts the fields can hold, computed once:
\* apiKey = trim(key field), liveUrl = trim(URL field) and
\* videoId = extractVideoId(liveUrl)
trimmedKey == [keyText \in ApiKeys |-> Trim(keyText)]
trimmedUrl == [urlText \in Urls |-> Trim(urlText)]
videoIdOf == [urlText \in Urls |-> extractVideoId(Trim(urlText))]

\* triggerRefresh without the exchange of line 169
refreshOutcomeUnguarded(inProgress, keyText, urlText) ==
    IF trimmedKey[keyText] = <<>> \/ trimmedUrl[urlText] = <<>> THEN "missing"
    ELSE IF videoIdOf[urlText] = <<>> THEN "noid"
    ELSE "started"

\* which return of triggerRefresh is taken: "busy" (line 173), "missing"
\* (line 184), "noid" (line 193) or "started" (the end of the function)
refreshOutcome(inProgress, keyText, urlText) ==
    IF inProgress THEN "busy"
    ELSE IF trimmedKey[keyText] = <<>> \/ trimmedUrl[urlText] = <<>> THEN "missing"
    ELSE IF videoIdOf[urlText] = <<>> THEN "noid"
    ELSE "started"

\* the validation returns without their requestInProgress = false
flagStaysSet(outcome) == TRUE

\* requestInProgress when triggerRefresh returns: exchange(true) leaves it
\* true; the two validation returns store false
flagOnReturn(outcome) == outcome \in {"busy", "started"}

refreshStatus(outcome) ==
    CASE outcome = "busy" -> "Update already in progress..."
      [] outcome = "missing" -> "Please provide both the live URL and API key."
      [] outcome = "noid" -> "Unable to determine the video ID."
      [] outcome = "started" -> "Updating..."

\* fetchThread.join() returns: the handle is not joinable or its thread has
\* left runFetch
joinReturns == IF fetchThread = 0 THEN TRUE ELSE wpc[fetchThread] = "done"

\* triggerRefresh without the join of lines 208-210
refreshJoinedAtOnce == TRUE

\* lines 208-210: triggerRefresh goes on once the previous thread is joined
refreshJoined == joinReturns

\* the display reset before the validation of the fields
clearsDisplayUnvalidated(outcome) == outcome # "busy"

\* lines 196-206 are reached: the display is put into its loading state
clearsDisplay(outcome) == outcome = "started"

\* triggerRefresh up to the join of line 209.  With a fetch to start, the UI
\* thread goes on to join the previous thread (ui = "join") and Launch
\* finishes the call.
triggerRefresh(urlText, keyText) ==
    LET outcome == refreshOutcome(requestInProgress, keyText, urlText)
    IN  /\ outcome = "started" => cycle < MaxCycles
        /\ requestInProgress' = flagOnReturn(outcome)
        /\ statusLabel' = refreshStatus(outcome)
        /\ viewersLabel' = IF clearsDisplay(outcome) THEN "Concurrent viewers: --"
                           ELSE viewersLabel
        /\ commentsList' = IF clearsDisplay(outcome)
                           THEN <<"Loading live chat messages...">>
                           ELSE commentsList
        /\ ui' = IF outcome = "started" THEN "join" ELSE "idle"
        /\ cycle' = IF outcome = "started" THEN cycle + 1 ELSE cycle
        /\ UNCHANGED <<threadVars, execQueue, shuttingDown, alive, destroyed,
                       danglingWrite>>

\* lines 208-214: the join has returned; the new thread takes a free slot
Launch ==
    /\ UNCHANGED eval
    /\ ui = "join"
    /\ refreshJoined
    /\ \E s \in Slots :
          /\ wpc[s] \in (IF s = fetchThread THEN {"none", "done"} ELSE {"none"})
          /\ \A t \in Slots :
                (wpc[t] = "none" \/ (t = fetchThread /\ wpc[t] = "done")) => s <= t
          /\ wpc' = [t \in Slots |->
                        IF t = s THEN "start"
                        ELSE IF t = fetchThread /\ wpc[t] = "done" THEN "none"
                        ELSE wpc[t]]
          /\ wcycle' = [wcycle EXCEPT ![s] = cycle]
          /\ fetchThread' = s
    /\ ui' = "idle"
    /\ UNCHANGED <<requestInProgress, shuttingDown, timerVars, wdata, execQueue,
                   displayVars, alive, destroyed, cycle, last, danglingWrite>>

\* the callback of the "Refresh now" button
RefreshNow ==
    /\ UNCHANGED eval
    /\ UiReady
    /\ \E urlText \in Urls, keyText \in ApiKeys :
          /\ triggerRefresh(urlText, keyText)
          /\ last' = Step("refresh", <<>>, <<urlText>>, <<keyText>>, 1,
                          refreshOutcome(requestInProgress, keyText, urlText),
                          "none")
    /\ UNCHANGED timerVars

----------------------------------------------------------------------------
(* Auto refresh *)

\* stopAutoRefresh without the setText of lines 255-257
stopAutoRefreshKeepsCaption ==
    /\ autoRefreshEnabled' = FALSE
    /\ refreshTimer' = 0
    /\ staleTick' = (staleTick \/ refreshTimer # 0)
    /\ autoRefreshButton' = autoRefreshButton

\* stopAutoRefresh without the store of line 250
stopAutoRefreshKeepsFlag ==
    /\ autoRefreshEnabled' = autoRefreshEnabled
    /\ refreshTimer' = 0
    /\ staleTick' = (staleTick \/ refreshTimer # 0)
    /\ autoRefreshButton' = "Start auto refresh"

stopAutoRefresh ==
    /\ autoRefreshEnabled' = FALSE
    /\ refreshTimer' = 0
    /\ staleTick' = (staleTick \/ refreshTimer # 0)
    /\ autoRefreshButton' = "Start auto refresh"

\* the interval startAutoRefresh arms the timer with, 0 when it refuses:
\* [ms, status] with status the validation message, "" when there is none
startInterval(intervalField) ==
    LET trimmed == Trim(intervalField)
        intervalText == IF trimmed = <<>> THEN to_string(kDefaultIntervalMinutes)
                        ELSE trimmed
        parsed == stod(intervalText)
    IN  IF ~parsed.ok
        THEN [ms |-> 0, status |-> "Invalid refresh interval. Enter minutes."]
        ELSE IF parsed.minutes <= 0
        THEN [ms |-> 0, status |-> "The interval must be greater than zero."]
        ELSE [ms |-> parsed.minutes * 60 * 1000, status |-> ""]
        \* static_cast<int>: the texts of the model stay far below 2^31 ms

\* startInterval for the texts the interval field can hold, computed once
intervalOf == [intervalField \in IntervalTexts |-> startInterval(intervalField)]

\* the fields are read when the code reads them: the URL and the key only
\* by the triggerRefresh() of line 246
startAutoRefresh(intervalField) ==
    LET iv == intervalOf[intervalField]
    IN  IF iv.ms = 0
        THEN /\ statusLabel' = iv.status
             /\ last' = Step("start", <<intervalField>>, <<>>, <<>>, 0, "none", "none")
             /\ UNCHANGED <<requestInProgress, shuttingDown, timerVars, threadVars,
                            execQueue, viewersLabel, commentsList, alive, ui,
                            destroyed, cycle, danglingWrite>>
        ELSE /\ autoRefreshEnabled' = TRUE
             /\ refreshTimer' = iv.ms
             /\ staleTick' = FALSE
             /\ autoRefreshButton' = "Stop auto refresh"
             /\ \E urlText \in Urls, keyText \in ApiKeys :
                   /\ triggerRefresh(urlText, keyText)
                   /\ last' = Step("start", <<intervalField>>, <<urlText>>,
                                   <<keyText>>, 1,
                                   refreshOutcome(requestInProgress, keyText, urlText),
                                   "none")

\* the callback of the auto-refresh button
ToggleAuto ==
    /\ UNCHANGED eval
    /\ UiReady
    /\ IF autoRefreshEnabled
       THEN /\ stopAutoRefresh
            /\ last' = Plain("stop")
            /\ UNCHANGED <<requestInProgress, shuttingDown, threadVars, execQueue,
                           displayVars, alive, ui, destroyed, cycle, danglingWrite>>
       ELSE \E intervalField \in IntervalTexts : startAutoRefresh(intervalField)

\* The Timer class is not part of these sources.  It calls onTimer every
\* period while armed; a tick it had already dispatched when stop() was
\* called may still arrive afterwards, which is the case the first test of
\* onTimer is there for.
tickDelivered == IF refreshTimer # 0 THEN TRUE ELSE staleTick

\* onTimer without the test of line 261
timerProceedsAlways == TRUE

\* onTimer goes on to triggerRefresh (the test of line 261 fails)
timerProceeds == autoRefreshEnabled /\ ~shuttingDown

\* a tick of the timer: onTimer.  ret is the value returned to the Timer.
onTimer ==
    /\ UNCHANGED eval
    /\ UiReady
    /\ tickDelivered
    /\ staleTick' = FALSE
    /\ UNCHANGED <<autoRefreshEnabled, refreshTimer, autoRefreshButton>>
    /\ IF timerProceeds
       THEN \E urlText \in Urls, keyText \in ApiKeys :
               /\ triggerRefresh(urlText, keyText)
               /\ last' = Step("timer", <<>>, <<urlText>>, <<keyText>>, 1,
                               refreshOutcome(requestInProgress, keyText, urlText),
                               IF autoRefreshEnabled' THEN "true" ELSE "false")
       ELSE /\ last' = Step("timer", <<>>, <<>>, <<>>, 0, "none", "false")
            /\ UNCHANGED <<requestInProgress, shuttingDown, threadVars, execQueue,
                           displayVars, alive, ui, destroyed, cycle, danglingWrite>>

----------------------------------------------------------------------------
(* suspend, window close, destruction *)

stoppedBefore == IF last.op \in {"suspend", "close"} THEN "stop" ELSE "none"

\* suspend() without its stopAutoRefresh()
suspendKeepsTimer ==
    /\ UNCHANGED eval
    /\ UiReady
    /\ last' = [Plain("suspend") EXCEPT !.after = stoppedBefore]
    /\ UNCHANGED <<requestInProgress, shuttingDown, timerVars, threadVars, execQueue,
                   displayVars, alive, ui, destroyed, cycle, danglingWrite>>

\* suspend(): stopAutoRefresh(), then App::suspend() of the base class
suspend ==
    /\ UNCHANGED eval
    /\ UiReady
    /\ stopAutoRefresh
    /\ last' = [Plain("suspend") EXCEPT !.after = stoppedBefore]
    /\ UNCHANGED <<requestInProgress, shuttingDown, threadVars, execQueue,
                   displayVars, alive, ui, destroyed, cycle, danglingWrite>>

\* the window's close callback: stopAutoRefresh(), then exit()
onClose ==
    /\ UNCHANGED eval
    /\ UiReady
    /\ stopAutoRefresh
    /\ last' = [Plain("close") EXCEPT !.after = stoppedBefore]
    /\ UNCHANGED <<requestInProgress, shuttingDown, threadVars, execQueue,
                   displayVars, alive, ui, destroyed, cycle, danglingWrite>>

\* the destructor without the join of lines 46-48
dtorJoinedAtOnce == TRUE

\* lines 46-48: the destructor goes on once the thread is joined
dtorJoined == joinReturns

\* ~YouTubeLiveApp up to the join of line 47
DestroyBegin ==
    /\ UNCHANGED eval
    /\ UiReady
    /\ shuttingDown' = TRUE
    /\ stopAutoRefresh
    /\ ui' = "dtor"
    /\ last' = Plain("destroy")
    /\ UNCHANGED <<requestInProgress, threadVars, execQueue, displayVars, alive,
                   destroyed, cycle, danglingWrite>>

\* the join of the destructor has returned: the destructor returns and the
\* members, the widgets among them, are destroyed
DestroyEnd ==
    /\ UNCHANGED eval
    /\ ui = "dtor"
    /\ dtorJoined
    /\ wpc' = [t \in Slots |-> IF t = fetchThread /\ wpc[t] = "done" THEN "none"
                               ELSE wpc[t]]
    /\ fetchThread' = 0
    /\ alive' = [w \in Widgets |-> FALSE]
    /\ staleTick' = FALSE
    /\ destroyed' = TRUE
    /\ ui' = "idle"
    /\ UNCHANGED <<requestInProgress, shuttingDown, autoRefreshEnabled, refreshTimer,
                   autoRefreshButton, wdata, wcycle, execQueue, displayVars, cycle,
                   last, danglingWrite>>

----------------------------------------------------------------------------
(* The fetch thread: runFetch *)

\* the thread leaves runFetch: joinable while fetchThread still names it
finished(s) == IF s = fetchThread THEN "done" ELSE "none"

\* lines 269-277: the shuttingDown test and the download
WorkerFetch ==
    /\ UNCHANGED eval
    /\ \E s \in Slots :
       /\ wpc[s] = "start"
       /\ \E resp \in Responses, now \in Clock :
             wdata' = [wdata EXCEPT ![s] = fetchedData(shuttingDown, resp, now)]
       /\ wpc' = [wpc EXCEPT ![s] = "fetched"]
       /\ last' = Plain("fetch")
       /\ UNCHANGED <<requestInProgress, shuttingDown, timerVars, fetchThread, wcycle,
                      execQueue, displayVars, alive, ui, destroyed, cycle,
                      danglingWrite>>

\* lines 279-283: the weak references are taken and the flag is cleared
WorkerClear ==
    /\ UNCHANGED eval
    /\ \E s \in Slots :
       /\ wpc[s] = "fetched"
       /\ requestInProgress' = FALSE
       /\ wpc' = [wpc EXCEPT ![s] = "cleared"]
       /\ last' = Plain("clear")
       /\ UNCHANGED <<shuttingDown, timerVars, fetchThread, wdata, wcycle, execQueue,
                      displayVars, alive, ui, destroyed, cycle, danglingWrite>>

\* lines 285-287: the second shuttingDown test
WorkerCheck ==
    /\ UNCHANGED eval
    /\ \E s \in Slots :
       /\ wpc[s] = "cleared"
       /\ wpc' = [wpc EXCEPT ![s] = IF shuttingDown THEN finished(s) ELSE "post"]
       /\ wdata' = [wdata EXCEPT ![s] = IF shuttingDown THEN LiveData ELSE wdata[s]]
       /\ wcycle' = [wcycle EXCEPT ![s] = IF shuttingDown THEN 0 ELSE wcycle[s]]
       /\ last' = Plain("check")
       /\ UNCHANGED <<requestInProgress, shuttingDown, timerVars, fetchThread,
                      execQueue, displayVars, alive, ui, destroyed, cycle,
                      danglingWrite>>

\* line 289: executeLater queues the closure, which holds the data by value
WorkerPost ==
    /\ UNCHANGED eval
    /\ \E s \in Slots :
       /\ wpc[s] = "post"
       /\ execQueue' = Append(execQueue, [cycle |-> wcycle[s], data |-> wdata[s]])
       /\ wpc' = [wpc EXCEPT ![s] = finished(s)]
       /\ wdata' = [wdata EXCEPT ![s] = LiveData]
       /\ wcycle' = [wcycle EXCEPT ![s] = 0]
       /\ last' = Plain("post")
       /\ UNCHANGED <<requestInProgress, shuttingDown, timerVars, fetchThread,
                      displayVars, alive, ui, destroyed, cycle, danglingWrite>>

----------------------------------------------------------------------------
(* The closure, run by the UI thread *)

\* a closure holding plain pointers: it writes whether or not the widget exists
locksAlways(w) == TRUE

\* weak_ptr::lock() gives the widget: it does while the widget exists
locks(w) == alive[w]

\* the UI thread runs the oldest queued closure (lines 289-310)
RunLater ==
    /\ UNCHANGED eval
    /\ ui = "idle"
    /\ execQueue # <<>>
    /\ LET data == Head(execQueue).data
       IN  /\ statusLabel' = IF locks("status") THEN renderStatus(data)
                             ELSE statusLabel
           /\ viewersLabel' = IF locks("viewers") THEN renderViewers(data)
                              ELSE viewersLabel
           /\ commentsList' = IF locks("list") THEN renderList(data)
                              ELSE commentsList
    /\ danglingWrite' = (danglingWrite \/ \E w \in Widgets : locks(w) /\ ~alive[w])
    /\ execQueue' = Tail(execQueue)
    /\ last' = [Plain("render") EXCEPT !.cycle = Head(execQueue).cycle]
    /\ UNCHANGED <<requestInProgress, shuttingDown, timerVars, threadVars, alive, ui,
                   destroyed, cycle>>

----------------------------------------------------------------------------

Next ==
    \/ RefreshNow
    \/ ToggleAuto
    \/ onTimer
    \/ suspend
    \/ onClose
    \/ Launch
    \/ DestroyBegin
    \/ DestroyEnd
    \/ WorkerFetch
    \/ WorkerClear
    \/ WorkerCheck
    \/ WorkerPost
    \/ RunLater

Spec == Init /\ [][Next]_vars

\* the scheduling of threads and the return of the network call: a thread
\* that can take its next step takes it, and a join that can return returns
FairSpec ==
    /\ Spec
    /\ WF_vars(Launch)
    /\ WF_vars(DestroyEnd)
    /\ WF_vars(WorkerFetch)
    /\ WF_vars(WorkerClear)
    /\ WF_vars(WorkerCheck)
    /\ WF_vars(WorkerPost)

----------------------------------------------------------------------------
(* Properties *)

\* the thread of slot s is inside runFetch
Running(s) == wpc[s] \in {"start", "fetched", "cleared", "post"}

\* this step is the handler named op, entered by the UI thread
Handler(op) == ui = "idle" /\ ~destroyed /\ last'.op = op

\* this step is a handler that calls triggerRefresh()
Calling == ui = "idle" /\ ~destroyed /\ last'.calls = 1

\* C1: single-flight.  In every reachable state at most one thread is
\* inside runFetch.
C1_SingleFlight == Cardinality({s \in Slots : Running(s)}) <= 1

\* a new cycle has begun and its call waits, in the join, for the thread of
\* the previous cycle, which has cleared the flag and is still in runFetch
C1_Witness == ui = "join" /\ \E s \in Slots : wpc[s] \in {"cleared", "post"}

\* C2: a triggerRefresh() made while requestInProgress is true takes the
\* "busy" return: the status label reads "Update already in progress...",
\* and the flag, the thread handle, the threads, their data, the queue of
\* closures, the cycle count and the rest of the display are as before, so
\* nothing is cancelled and nothing is left behind that could start a fetch
\* later.  A thread is only ever started by the Launch that ends a call which
\* found the flag clear.
C2_RejectedWhileInFlight ==
    [][ /\ (Calling /\ requestInProgress) =>
              /\ last'.outcome = "busy"
              /\ statusLabel' = "Update already in progress..."
              /\ ui' = "idle"
              /\ UNCHANGED <<requestInProgress, threadVars, execQueue, cycle,
                             viewersLabel, commentsList, shuttingDown>>
        /\ (\E s \in Slots : wpc[s] # "start" /\ wpc'[s] = "start") => ui = "join"
        /\ (ui = "idle" /\ ui' = "join") =>
              (Calling /\ ~requestInProgress /\ last'.outcome = "started")
      ]_vars

\* a call has just been rejected while the download of the fetch in flight
\* has not returned
C2_Witness ==
    /\ last.outcome = "busy"
    /\ statusLabel = "Update already in progress..."
    /\ \E s \in Slots : wpc[s] = "start"

\* C3 (as claimed): requestInProgress is never false while a result is
\* still on its way to the widgets, that is while the thread holds it after
\* the fetch or its closure waits in the queue of the UI thread.
C3_IdleOnlyAfterRender ==
    (~shuttingDown /\ (execQueue # <<>> \/ \E s \in Slots : wpc[s] \in {"cleared", "post"}))
        => requestInProgress

\* C4: once the destructor has returned, shuttingDown is set, auto refresh
\* is off, the timer is disposed of and no thread is inside runFetch or
\* left unjoined; while the destructor waits, shuttingDown is set and auto
\* refresh is off already.
C4_DestructorWaits ==
    /\ destroyed =>
          /\ shuttingDown /\ ~autoRefreshEnabled /\ refreshTimer = 0
          /\ fetchThread = 0
          /\ \A s \in Slots : wpc[s] = "none"
    /\ ui = "dtor" => shuttingDown /\ ~autoRefreshEnabled /\ refreshTimer = 0

\* the destructor has returned, and the step before its return was the
\* thread leaving runFetch: it began while a fetch was in flight and waited
C4_Witness == destroyed /\ last.op \in {"check", "post"}

\* C5 (as claimed): when suspend() has returned, shuttingDown is set, auto
\* refresh is off and no thread is inside runFetch.
C5_SuspendTearsDown ==
    last.op = "suspend" =>
        /\ shuttingDown
        /\ ~autoRefreshEnabled
        /\ \A s \in Slots : ~Running(s)

\* C5 (amended): suspend() stops auto refresh and nothing else: when it
\* returns auto refresh is off, no timer is armed and the toggle reads
\* "Start auto refresh"; shuttingDown is still false, and requestInProgress,
\* the thread in flight, the queue and the display are as before.
C5_SuspendStopsAutoRefresh ==
    [][ Handler("suspend") =>
           /\ ~autoRefreshEnabled' /\ refreshTimer' = 0
           /\ autoRefreshButton' = "Start auto refresh"
           /\ ~shuttingDown'
           /\ UNCHANGED <<requestInProgress, threadVars, execQueue, displayVars,
                          ui, destroyed, cycle>>
      ]_vars

\* suspend() has returned with a timer stopped and the download in flight
C5_Witness ==
    /\ last.op = "suspend"
    /\ staleTick
    /\ requestInProgress
    /\ \E s \in Slots : wpc[s] = "start"

\* C6: a closure never writes to a destroyed widget: each widget that exists
\* gets the closure's text, each destroyed one is left alone.
C6_ClosureChecksWidgets ==
    [][ (ui = "idle" /\ last'.op = "render" /\ execQueue # <<>>) =>
           LET data == Head(execQueue).data
           IN  /\ ~danglingWrite'
               /\ statusLabel' = IF alive["status"] THEN renderStatus(data)
                                 ELSE statusLabel
               /\ viewersLabel' = IF alive["viewers"] THEN renderViewers(data)
                                  ELSE viewersLabel
               /\ commentsList' = IF alive["list"] THEN renderList(data)
                                  ELSE commentsList
      ]_vars

\* a closure has run after the panel and its widgets were destroyed
C6_Witness ==
    /\ destroyed
    /\ last.op = "render"
    /\ \A w \in Widgets : ~alive[w]

\* C7: a tick that finds auto refresh off or the panel shutting down
\* returns false, calls nothing and changes nothing; any other tick calls
\* triggerRefresh() once and returns true, whatever that call did.
C7_OnTimer ==
    [][ Handler("timer") =>
           IF ~autoRefreshEnabled \/ shuttingDown
           THEN /\ last'.ret = "false"
                /\ last'.calls = 0
                /\ UNCHANGED <<requestInProgress, threadVars, execQueue,
                               displayVars, ui, cycle, autoRefreshEnabled,
                               refreshTimer>>
           ELSE /\ last'.ret = "true"
                /\ last'.calls = 1
                /\ last'.outcome \in {"busy", "missing", "noid", "started"}
                /\ autoRefreshEnabled' /\ refreshTimer' = refreshTimer
      ]_vars

\* a tick has returned true although its triggerRefresh() was rejected
C7_Witness ==
    /\ last.op = "timer"
    /\ last.ret = "true"
    /\ last.outcome = "busy"

\* what an interval text denotes, read as a decimal numeral: white space
\* around it aside, an optional sign and then digits only
numeralBody(text) ==
    LET trimmed == Trim(text)
    IN  IF trimmed # <<>> /\ trimmed[1] \in {"+", "-"} THEN Tail(trimmed)
        ELSE trimmed

isNumeral(text) ==
    /\ numeralBody(text) # <<>>
    /\ \A i \in 1..Len(numeralBody(text)) : IsDigit(numeralBody(text)[i])

RECURSIVE digitsValue(_)
digitsValue(digits) ==
    IF digits = <<>> THEN 0
    ELSE digitsValue(SubSeq(digits, 1, Len(digits) - 1)) * 10
            + DigitVal(digits[Len(digits)])

numeralValue(text) ==
    IF Trim(text)[1] = "-" THEN 0 - digitsValue(numeralBody(text))
    ELSE digitsValue(numeralBody(text))

\* a step in which startAutoRefresh refuses: a validation message is shown
\* and nothing else changes
StartRefused ==
    /\ statusLabel' \in {"Invalid refresh interval. Enter minutes.",
                         "The interval must be greater than zero."}
    /\ last'.calls = 0
    /\ UNCHANGED <<requestInProgress, shuttingDown, timerVars, threadVars, execQueue,
                   viewersLabel, commentsList, ui, cycle>>

\* a step in which startAutoRefresh arms a timer of the given minutes
StartArmed(minutes) ==
    /\ refreshTimer' = minutes * 60000
    /\ autoRefreshEnabled'
    /\ autoRefreshButton' = "Stop auto refresh"
    /\ last'.calls = 1

\* C8 (as claimed): startAutoRefresh with an empty interval text arms a
\* timer of one minute; with a text that is not a number, or a number <= 0,
\* it refuses; with a positive whole number n it arms a timer of n*60000 ms,
\* turns auto refresh on and calls triggerRefresh() once.
C8_StartAutoRefresh ==
    [][ Handler("start") =>
           LET text == last'.interval[1]
           IN  IF Trim(text) = <<>> THEN StartArmed(kDefaultIntervalMinutes)
               ELSE IF ~isNumeral(text) THEN StartRefused
               ELSE IF numeralValue(text) <= 0 THEN StartRefused
               ELSE StartArmed(numeralValue(text))
      ]_vars

\* the steps that are one call of stopAutoRefresh() and nothing more
StopOps == {"stop", "suspend", "close"}

\* C9: a call of stopAutoRefresh() leaves auto refresh off, no timer and
\* the toggle reading "Start auto refresh", and changes neither
\* requestInProgress nor the thread in flight, its data, the queue or the
\* display; a second call right after the first changes nothing at all.
C9_StopIdempotent ==
    [][ (ui = "idle" /\ ~destroyed /\ last'.op \in StopOps) =>
           /\ ~autoRefreshEnabled' /\ refreshTimer' = 0
           /\ autoRefreshButton' = "Start auto refresh"
           /\ UNCHANGED <<requestInProgress, shuttingDown, threadVars, execQueue,
                          displayVars, ui, cycle>>
           /\ last.op \in StopOps =>
                 UNCHANGED <<requestInProgress, shuttingDown, timerVars, threadVars,
                             execQueue, displayVars, alive, ui, destroyed, cycle>>
      ]_vars

\* stopAutoRefresh() has been called twice in a row (suspend, then window
\* close) while the download of a fetch is in flight
C9_Witness ==
    /\ last.op = "close"
    /\ last.after = "stop"
    /\ requestInProgress
    /\ \E s \in Slots : wpc[s] = "start"

\* C10: a triggerRefresh() that fails validation or extraction returns with
\* requestInProgress false; a triggerRefresh() that finds the flag clear
\* and valid input starts a fetch; and whenever requestInProgress is true it
\* becomes false again, whatever the fetch meets.
C10_FailuresLeavePanelUsable ==
    /\ [](last.outcome \in {"missing", "noid"} => ~requestInProgress)
    /\ [][ (Calling /\ ~requestInProgress
               /\ trimmedKey[last'.key[1]] # <<>>
               /\ isCandidate(videoIdOf[last'.url[1]])) =>
              /\ last'.outcome = "started"
              /\ statusLabel' = "Updating..."
              /\ ui' = "join"
         ]_vars
    /\ (requestInProgress ~> ~requestInProgress)

\* the fetch of the first cycle met a transport failure, its closure still
\* waits in the queue, and a second triggerRefresh() has started a fetch
C10_Witness ==
    /\ last.outcome = "started"
    /\ cycle = 2
    /\ execQueue # <<>>
    /\ Head(execQueue).data.statusText = "Error: timeout"

----------------------------------------------------------------------------
(* The fetch as a function of the answer of the API: runFetch's call of    *)
(* downloadLiveData and the closure's rendering, on bounded answers         *)

MaxChatItems == 40

\* the i-th item of a chat answer: "full" items all carry an author and a
\* text, every third "gaps" item has an empty text, and "bare" items carry
\* no author and every second one no displayMessage
ChatItem(kind, i) ==
    IF kind = "full" THEN Msg(<<"a" \o ToString(i)>>, <<"m" \o ToString(i)>>)
    ELSE IF kind = "gaps"
    THEN Msg(<<"a" \o ToString(i)>>,
             IF i % 3 = 0 THEN <<"">> ELSE <<"m" \o ToString(i)>>)
    ELSE Msg(<<>>, IF i % 2 = 0 THEN <<>> ELSE <<"m" \o ToString(i)>>)

ChatKinds == {"full", "gaps", "bare"}

ChatAnswers ==
    {[i \in 1..n |-> ChatItem(kind, i)] : n \in 0..MaxChatItems, kind \in ChatKinds}

\* the answers of the API to one cycle
Answers ==
    {Response("throw", <<>>, "noitems", <<>>, "timeout"),
     Response("noitems", <<>>, "noitems", <<>>, ""),
     Response("empty", <<>>, "noitems", <<>>, ""),
     Response("item", <<>>, "noitems", <<>>, "")}
    \cup {Response("item", <<Details(v, <<>>)>>, "noitems", <<>>, "") :
            v \in {<<>>, <<"42">>}}
    \cup {Response("item", <<Details(v, <<"chat1">>)>>, c, <<>>, "parse error") :
            v \in {<<>>, <<"42">>}, c \in {"throw", "noitems"}}
    \cup {Response("item", <<Details(v, <<"chat1">>)>>, "items", m, "") :
            v \in {<<>>, <<"42">>}, m \in ChatAnswers}

FetchInit ==
    /\ Constructed
    /\ \E down \in BOOLEAN, resp \in Answers :
          eval = [pc |-> "answer", down |-> down, resp |-> resp]

\* runFetch, lines 268-277
Download ==
    /\ eval.pc = "answer"
    /\ \E now \in Clock :
          eval' = [pc |-> "fetched", down |-> eval.down, resp |-> eval.resp,
                   requests |-> fetchRequests(eval.down, eval.resp),
                   data |-> fetchedData(eval.down, eval.resp, now)]
    /\ UNCHANGED panelVars

\* the closure of runFetch, lines 296-309, with the three widgets alive
Render ==
    /\ eval.pc = "fetched"
    /\ eval' = [pc |-> "rendered", down |-> eval.down, resp |-> eval.resp,
                requests |-> eval.requests, data |-> eval.data,
                status |-> renderStatus(eval.data),
                viewers |-> renderViewers(eval.data),
                list |-> renderList(eval.data)]
    /\ UNCHANGED panelVars

FetchNext ==
    \/ Download
    \/ Render

FetchSpec == FetchInit /\ [][FetchNext]_vars

\* the fetch has returned its LiveData
Fetched == eval.pc \in {"fetched", "rendered"}

\* C11: when the answer to the videos request has no "items" member or an
\* empty items array, downloadLiveData returns success = false with the
\* status "Live stream not found." and the chat request is not issued.
C11_NotFound ==
    (Fetched /\ ~eval.down /\ eval.resp.video \in {"noitems", "empty"}) =>
        /\ eval.data.success = FALSE
        /\ eval.data.statusText = "Live stream not found."
        /\ \A i \in DOMAIN eval.requests : eval.requests[i] # "liveChat/messages"
        /\ eval.requests # <<>>

C11_Witness ==
    /\ eval.pc = "rendered"
    /\ ~eval.down
    /\ eval.resp.video = "empty"
    /\ eval.status = "Live stream not found."

\* the answer to the videos request names a chat and the chat answer has items
ChatAnswered ==
    /\ ~eval.down
    /\ eval.resp.video = "item"
    /\ eval.resp.details # <<>>
    /\ eval.resp.details[1].chatId # <<>>
    /\ eval.resp.chat = "items"

\* the items of the chat answer that carry a non-empty display text, in the
\* order of the answer
shownItems == SelectSeq(eval.resp.messages,
                        LAMBDA m : m.message # <<>> /\ m.message[1] # "")

\* the line of a chat item
lineOf(m) ==
    (IF m.author = <<>> THEN "Unknown" ELSE m.author[1]) \o ": " \o m.message[1]

\* C12: for a chat answer of any number of items the comments of the result
\* hold at most 25 entries, which are the lines of the first 25 items with a
\* non-empty display text in the order of the answer, and the comment list
\* rendered from the result holds at most 25 lines.
C12_AtMost25Comments ==
    (Fetched /\ ChatAnswered) =>
        /\ Len(eval.data.comments) <= 25
        /\ shownItems # <<>> =>
              /\ Len(eval.data.comments) =
                    (IF Len(shownItems) < 25 THEN Len(shownItems) ELSE 25)
              /\ \A k \in 1..Len(eval.data.comments) :
                    eval.data.comments[k] = lineOf(shownItems[k])
        /\ eval.pc = "rendered" =>
              /\ Len(eval.list) <= 25
              /\ eval.list = eval.data.comments

\* an answer with more than 25 shown items among which some have no text
C12_Witness ==
    /\ eval.pc = "rendered"
    /\ ChatAnswered
    /\ Len(shownItems) > 25
    /\ Len(shownItems) < Len(eval.resp.messages)
    /\ Len(eval.list) = 25

\* C13: the comments of the LiveData a fetch cycle produces are never empty:
\* after success, not found, an error and a skipped fetch alike they hold at
\* least one entry.
C13_CommentsNeverEmpty == Fetched => eval.data.comments # <<>>

\* C13, as the code has it: the comments are non-empty exactly when the
\* fetch succeeded; after not found, an error or a skipped fetch they are
\* empty, and the comment list rendered from any result is non-empty, showing
\* the single placeholder line when the comments are empty.
C13_ListNeverEmpty ==
    Fetched =>
        /\ eval.data.success <=> eval.data.comments # <<>>
        /\ eval.pc = "rendered" =>
              /\ eval.list # <<>>
              /\ eval.data.comments = <<>> =>
                    eval.list = <<"No live chat messages available.">>

\* the outcomes without success: skipped, not found, error
C13_Witness ==
    /\ eval.pc = "rendered"
    /\ ~eval.data.success
    /\ eval.data.comments = <<>>
    /\ eval.list = <<"No live chat messages available.">>
    /\ eval.resp.video = "throw"
    /\ ~eval.down

\* the videos request was answered with a chat id and the chat request, or
\* the parsing of its answer, failed
ChatFailed ==
    /\ ~eval.down
    /\ eval.resp.video = "item"
    /\ eval.resp.details # <<>>
    /\ eval.resp.details[1].chatId # <<>>
    /\ eval.resp.chat = "throw"

\* C14: a fetch whose videos request succeeded and whose chat request failed
\* hands over the status "Error: <message>" and nothing else: success is
\* false, no viewers text and no comments are kept, and the display shows
\* the error, "Concurrent viewers: --" and the placeholder line.
C14_FailsAtomically ==
    (Fetched /\ ChatFailed) =>
        /\ eval.data = [success |-> FALSE, viewersText |-> "",
                        statusText |-> "Error: " \o eval.resp.what,
                        comments |-> <<>>]
        /\ eval.pc = "rendered" =>
              /\ eval.status = "Error: " \o eval.resp.what
              /\ eval.viewers = "Concurrent viewers: --"
              /\ eval.list = <<"No live chat messages available.">>

C14_Witness ==
    /\ eval.pc = "rendered"
    /\ ChatFailed
    /\ eval.resp.details[1].viewers = <<"42">>
    /\ eval.viewers = "Concurrent viewers: --"
    /\ eval.status = "Error: parse error"

----------------------------------------------------------------------------
(* extractVideoId as a function of the text of the URL field *)

\* what stands where an ID is expected: two IDs, an ID cut to 10 and grown
\* to 12 characters, and 11 characters one of which no ID may hold
OtherId == <<"a", "-", "B", "_", "c", "0", "-", "1", "_", "2", "Z">>

IdTexts == {VideoId, OtherId, SubSeq(VideoId, 1, 10), VideoId \o <<"A">>,
            SubSeq(VideoId, 1, 10) \o <<"!">>}

\* what precedes the marker: nothing, a path, a query whose first parameter
\* ends in "v", and a short link to another video
HeadTexts == {<<>>, <<"w", "a", "t", "c", "h", "?">>,
              <<"w", "a", "t", "c", "h", "?", "r", "e", "v", "=", "1", "&">>,
              KeyShort \o OtherId \o <<"?">>}

MarkerTexts == {<<>>, KeyV, KeyShort, KeyEmbed}

\* what follows the ID
TailTexts == {<<>>, <<"?", "t", "=", "1">>, <<"&", "t", "=", "1">>, <<"#", "t">>, <<"/", "x">>}

SpaceTexts == {<<>>, <<" ">>, <<"\t", "\n">>}

UrlTexts ==
    {lead \o head \o marker \o id \o tail \o trail :
        lead \in SpaceTexts, head \in HeadTexts, marker \in MarkerTexts,
        id \in IdTexts, tail \in TailTexts, trail \in SpaceTexts}

ExtractInit ==
    /\ Constructed
    /\ \E url \in UrlTexts : eval = [pc |-> "url", url |-> url]

\* triggerRefresh, line 187: the call of extractVideoId
Extract ==
    /\ eval.pc = "url"
    /\ eval' = [pc |-> "id", url |-> eval.url, id |-> extractVideoId(eval.url)]
    /\ UNCHANGED panelVars

ExtractNext ==
    \/ Extract

ExtractSpec == ExtractInit /\ [][ExtractNext]_vars

\* the characters of a video ID
IdChars == Lower \cup Upper \cup {Digits[i] : i \in 1..10} \cup {"-", "_"}

\* an 11-character text over the characters of an ID
ValidId(text) == Len(text) = 11 /\ \A i \in 1..Len(text) : text[i] \in IdChars

\* key stands at position p of text
KeyAt(text, key, p) ==
    p + Len(key) - 1 <= Len(text) /\ SubSeq(text, p, p + Len(key) - 1) = key

\* the 11 characters after the key at p are a valid ID that ends at a '?',
\* '&' or '#' or at the end of text
IdFollows(text, key, p) ==
    LET from == p + Len(key)
    IN  /\ KeyAt(text, key, p)
        /\ from + 10 <= Len(text)
        /\ ValidId(SubSeq(text, from, from + 10))
        /\ from + 10 < Len(text) => text[from + 11] \in {"?", "&", "#"}

IdAfter(text, key, p) == SubSeq(text, p + Len(key), p + Len(key) + 10)

Markers == <<KeyV, KeyShort, KeyEmbed>>

\* C15: for an input that holds a valid 11-character candidate right after a
\* marker "v=", "youtu.be/" or "/embed/", ended by '?', '&', '#' or the end
\* of the text, extractVideoId returns exactly that candidate.
C15_EmbeddedIdReturned ==
    eval.pc = "id" =>
        LET text == Trim(eval.url)
        IN  \A m \in 1..3 : \A p \in 1..Len(text) :
                IdFollows(text, Markers[m], p) =>
                    eval.id = IdAfter(text, Markers[m], p)

\* the ID that follows the first occurrence of key in text; <<>> when key
\* does not occur or no valid ID follows its first occurrence
FirstId(text, key) ==
    LET firsts == {p \in 1..Len(text) :
                      /\ KeyAt(text, key, p)
                      /\ \A q \in 1..(p - 1) : ~KeyAt(text, key, q)
                      /\ IdFollows(text, key, p)}
    IN  IF firsts = {} THEN <<>>
        ELSE IdAfter(text, key, CHOOSE p \in firsts : TRUE)

\* C15, as the code has it: only the first occurrence of each marker is
\* examined, in the order "v=", "youtu.be/", "/embed/".  When a valid
\* candidate follows the first occurrence of a marker and none follows the
\* first occurrence of a marker earlier in that order, that candidate is
\* returned.
C15_FirstOccurrenceReturned ==
    eval.pc = "id" =>
        LET text == Trim(eval.url)
        IN  \A m \in 1..3 :
                (/\ FirstId(text, Markers[m]) # <<>>
                 /\ \A n \in 1..(m - 1) : FirstId(text, Markers[n]) = <<>>) =>
                    eval.id = FirstId(text, Markers[m])

\* a candidate after "youtu.be/", cut off by '&', with "v=" later in the text
C15_Witness ==
    /\ eval.pc = "id"
    /\ FirstId(Trim(eval.url), KeyV) = <<>>
    /\ FirstId(Trim(eval.url), KeyShort) = OtherId
    /\ Find(Trim(eval.url), KeyV) > Find(Trim(eval.url), KeyShort)
    /\ eval.id = OtherId

\* C16: a text that after trimming is exactly 11 characters of letters,
\* digits, '-' and '_' is returned as it is, 10 or 12 such characters give the
\* empty text, and every result is empty or 11 characters over that alphabet.
C16_BareId ==
    eval.pc = "id" =>
        LET text == Trim(eval.url)
            plain == \A i \in 1..Len(text) : text[i] \in IdChars
        IN  /\ (plain /\ Len(text) = 11) => eval.id = text
            /\ (plain /\ Len(text) \in {10, 12}) => eval.id = <<>>
            /\ eval.id = <<>> \/ ValidId(eval.id)

\* a padded text of 12 characters of the alphabet
C16_Witness ==
    /\ eval.pc = "id"
    /\ Len(eval.url) > 12
    /\ Trim(eval.url) = VideoId \o <<"A">>
    /\ eval.id = <<>>

----------------------------------------------------------------------------
(* Properties of the panel, continued *)

\* the fields read by this call of triggerRefresh fail its validation:
\* "missing" when a field is empty after trimming, "noid" when no video ID
\* can be extracted, "valid" otherwise
Validation(keyText, urlText) ==
    IF Trim(keyText) = <<>> \/ Trim(urlText) = <<>> THEN "missing"
    ELSE IF extractVideoId(urlText) = <<>> THEN "noid"
    ELSE "valid"

\* C17: a call of triggerRefresh() while Idle whose validation fails changes
\* the status label only: requestInProgress is false on return, no thread is
\* started, and the viewers label, the comment list and the auto-refresh mode
\* are as the caller left them.
C17_ValidationFailure ==
    [][ (/\ Calling
         /\ ~requestInProgress
         /\ Validation(last'.key[1], last'.url[1]) # "valid") =>
            /\ requestInProgress' = FALSE
            /\ ui' = "idle"
            /\ UNCHANGED <<threadVars, execQueue, cycle, viewersLabel,
                           commentsList, shuttingDown>>
            /\ statusLabel' =
                  (IF Validation(last'.key[1], last'.url[1]) = "missing"
                   THEN "Please provide both the live URL and API key."
                   ELSE "Unable to determine the video ID.")
            /\ last'.op \in {"refresh", "timer"} =>
                  UNCHANGED <<autoRefreshEnabled, refreshTimer, autoRefreshButton>>
            /\ last'.op = "start" =>
                  /\ autoRefreshEnabled'
                  /\ refreshTimer' # 0
                  /\ autoRefreshButton' = "Stop auto refresh"
      ]_vars

\* a click on "Refresh now" with no video ID in the URL, over the result of
\* an earlier cycle
C17_Witness ==
    /\ last.op = "refresh"
    /\ last.outcome = "noid"
    /\ statusLabel = "Unable to determine the video ID."
    /\ ~requestInProgress
    /\ viewersLabel = "Concurrent viewers: 42"
    /\ Len(commentsList) = 2

\* the display is in the loading state triggerRefresh puts it into
Loading ==
    /\ statusLabel = "Updating..."
    /\ viewersLabel = "Concurrent viewers: --"
    /\ commentsList = <<"Loading live chat messages...">>

\* C18: once triggerRefresh() has started a cycle and put the display into
\* its loading state, the display is not overwritten by the result of an
\* earlier cycle: the closure that renders next holds the result of the cycle
\* in flight.
C18_NoStaleRender ==
    [][ (/\ ui = "idle"
         /\ last'.op = "render"
         /\ requestInProgress
         /\ Loading
         /\ \A w \in Widgets : alive[w]) =>
            last'.cycle = cycle
      ]_vars

\* C19: a thread is created only after the previous one has ended: the
\* step that starts a thread and assigns its handle is the end of a
\* triggerRefresh() whose join has returned, so the handle it overwrites
\* refers to no thread or to one that has left runFetch, and no other thread
\* is inside runFetch, although the flag was cleared before that thread had
\* queued its closure.
C19_JoinBeforeNewThread ==
    [][ (\E s \in Slots : wpc[s] # "start" /\ wpc'[s] = "start") =>
            /\ ui = "join"
            /\ IF fetchThread = 0 THEN TRUE ELSE wpc[fetchThread] = "done"
            /\ \A t \in Slots : ~Running(t)
            /\ fetchThread' # 0
            /\ wpc'[fetchThread'] = "start"
      ]_vars

\* the thread of the second cycle has been started while the closure of the
\* first, queued after the flag was cleared, still waits
C19_Witness ==
    /\ ui = "idle"
    /\ fetchThread # 0
    /\ wpc[fetchThread] = "start"
    /\ wcycle[fetchThread] = 2
    /\ execQueue # <<>>
    /\ Head(execQueue).cycle = 1

\* C20: between UI events, so whenever the toggle handler, startAutoRefresh,
\* stopAutoRefresh, suspend or the window close has returned,
\* autoRefreshEnabled is true exactly when a refresh timer is armed and
\* exactly when the toggle reads "Stop auto refresh", whether or not the
\* refresh startAutoRefresh triggered passed its validation.
C20_AutoRefreshConsistent ==
    ui = "idle" =>
        /\ autoRefreshEnabled <=> refreshTimer # 0
        /\ autoRefreshEnabled <=> autoRefreshButton = "Stop auto refresh"
        /\ ~autoRefreshEnabled <=> autoRefreshButton = "Start auto refresh"

\* auto-refresh was switched on by a call whose refresh failed validation
C20_Witness ==
    /\ ui = "idle"
    /\ last.op = "start"
    /\ last.outcome = "missing"
    /\ autoRefreshEnabled
    /\ refreshTimer # 0
    /\ autoRefreshButton = "Stop auto refresh"

====
